---------------------------- MODULE Spec2Model ----------------------------
(***************************************************************************)
(* A model of weather.py: the pure helpers (format_temperature,            *)
(* convert_date, convert_f_to_c, calculate_mean, find_min, find_max), the  *)
(* CSV loader load_data_from_csv as a step-by-step process over the rows   *)
(* csv.reader yields, and the two report builders.                         *)
(*                                                                         *)
(* Representation.                                                         *)
(*  - A text field of the CSV is a sequence of one-character strings, so   *)
(*    that int() and datetime.fromisoformat() are computed by scanning it. *)
(*  - A Fahrenheit temperature is an integer (float(int) is exact).        *)
(*  - A Celsius temperature with one decimal is the integer number of      *)
(*    tenths of a degree: -6.7 is -67.                                     *)
(*  - The mean of a list is the exact fraction [num, den] in tenths.       *)
(*  - A report is the sequence of its newline-terminated lines; a line is  *)
(*    a tuple of its fragments and <<>> is a blank line; "" is <<>>.       *)
(*  - A call that raises yields [ok |-> FALSE, err |-> <exception>].       *)
(***************************************************************************)
EXTENDS Integers, Sequences, FiniteSets, TLC

VARIABLES
    op,        \* the function the caller invoked last ("idle" before any call)
    arg,       \* its argument
    result,    \* what it returned or raised
    calls,     \* the helper functions it invoked
    file,      \* load_data_from_csv: the rows csv.reader yields for csv_file
    pc,        \* load_data_from_csv: position in the function body
    fileOpen,  \* load_data_from_csv: whether the stream of line 65 is open
    pos,       \* load_data_from_csv: index of the next row the reader yields
    data,      \* load_data_from_csv: the local list `data`
    ret        \* load_data_from_csv: what the call returned or raised

vars == <<op, arg, result, calls, file, pc, fileOpen, pos, data, ret>>
apiVars == <<op, arg, result, calls>>
loadVars == <<file, pc, fileOpen, pos, data, ret>>

----------------------------------------------------------------------------
(* Bounds of the model. *)

\* longest list of numbers handed to find_min / find_max / calculate_mean
MaxLen == 5
\* longest list of records handed to the report builders
MaxDays == 3
\* most data rows (after the header) in a CSV file
MaxRows == 3

----------------------------------------------------------------------------
(* Results of calls. *)

Ok(v) == [ok |-> TRUE, val |-> v]
Raise(e) == [ok |-> FALSE, err |-> e]
NoCall == [ok |-> TRUE, val |-> <<>>]

----------------------------------------------------------------------------
(* Text fields and their parsing. *)

DigitChars == <<"0", "1", "2", "3", "4", "5", "6", "7", "8", "9">>

IsDigit(c) == \E i \in 1..10 : DigitChars[i] = c

DigitVal(c) == (CHOOSE i \in 1..10 : DigitChars[i] = c) - 1

RECURSIVE DigitsValue(_)
\* the number a non-empty sequence of digit characters denotes
DigitsValue(s) ==
    IF s = <<>> THEN 0
    ELSE 10 * DigitsValue(SubSeq(s, 1, Len(s) - 1)) + DigitVal(s[Len(s)])

RECURSIVE Strip(_)
\* str.strip() for the blank character, as int() applies it to its argument
Strip(s) ==
    IF s = <<>> THEN s
    ELSE IF s[1] = " " THEN Strip(Tail(s))
    ELSE IF s[Len(s)] = " " THEN Strip(SubSeq(s, 1, Len(s) - 1))
    ELSE s

\* the digits of an int() literal: digits, single underscores only between two
UnderscoresOk(b) ==
    /\ b # <<>>
    /\ \A i \in 1..Len(b) : IsDigit(b[i]) \/ b[i] = "_"
    /\ IsDigit(b[1]) /\ IsDigit(b[Len(b)])
    /\ \A i \in 1..(Len(b) - 1) : ~(b[i] = "_" /\ b[i + 1] = "_")

\* int(text): blanks stripped, an optional sign, then the digits;
\* anything else raises ValueError
int(s) ==
    LET t == Strip(s)
        signed == t # <<>> /\ t[1] \in {"-", "+"}
        b == IF signed THEN Tail(t) ELSE t
        n == DigitsValue(SelectSeq(b, IsDigit))
    IN  IF UnderscoresOk(b)
        THEN Ok(IF signed /\ t[1] = "-" THEN 0 - n ELSE n)
        ELSE Raise("ValueError")

----------------------------------------------------------------------------
(* format_temperature and convert_date. *)

DEGREE_SYMBOL == "<DEGREE SIGN>C"

\* f"{temp}{DEGREE_SYMBOL}": the value as given, then the unit
format_temperature(temp) == <<temp, DEGREE_SYMBOL>>

WeekdayNames ==
    <<"Monday", "Tuesday", "Wednesday", "Thursday", "Friday", "Saturday", "Sunday">>

MonthNames ==
    <<"January", "February", "March", "April", "May", "June", "July",
      "August", "September", "October", "November", "December">>

IsLeap(y) == y % 4 = 0 /\ (y % 100 # 0 \/ y % 400 = 0)

DaysInMonth(y, m) ==
    IF m = 2 THEN (IF IsLeap(y) THEN 29 ELSE 28)
    ELSE IF m \in {4, 6, 9, 11} THEN 30 ELSE 31

RECURSIVE DaysBeforeMonth(_, _)
DaysBeforeMonth(y, m) ==
    IF m = 1 THEN 0 ELSE DaysBeforeMonth(y, m - 1) + DaysInMonth(y, m - 1)

\* date.toordinal(): days since 0001-01-01, that day being 1
ToOrdinal(y, m, d) ==
    (y - 1) * 365 + ((y - 1) \div 4) - ((y - 1) \div 100) + ((y - 1) \div 400)
        + DaysBeforeMonth(y, m) + d

\* date.weekday(): Monday is 0
Weekday(y, m, d) == (ToOrdinal(y, m, d) + 6) % 7

\* datetime.fromisoformat on a calendar date YYYY-MM-DD: the date's own
\* fields, or ValueError
fromisoformat(s) ==
    IF /\ Len(s) = 10
       /\ s[5] = "-" /\ s[8] = "-"
       /\ \A i \in {1, 2, 3, 4, 6, 7, 9, 10} : IsDigit(s[i])
    THEN LET y == DigitsValue(SubSeq(s, 1, 4))
             m == DigitsValue(SubSeq(s, 6, 7))
             d == DigitsValue(SubSeq(s, 9, 10))
         IN  IF y >= 1 /\ m \in 1..12 /\ d >= 1 /\ d <= DaysInMonth(y, m)
             THEN Ok([year |-> y, month |-> m, day |-> d])
             ELSE Raise("ValueError")
    ELSE Raise("ValueError")

\* strftime("%A %d %B %Y"): weekday name, two-digit day, month name, year
strftime(dt) ==
    <<WeekdayNames[Weekday(dt.year, dt.month, dt.day) + 1],
      <<DigitChars[(dt.day \div 10) + 1], DigitChars[(dt.day % 10) + 1]>>,
      MonthNames[dt.month],
      dt.year>>

convert_date(iso_string) ==
    LET dt == fromisoformat(iso_string)
    IN  IF dt.ok THEN Ok(strftime(dt.val)) ELSE dt

----------------------------------------------------------------------------
(* Numbers. *)

Abs(x) == IF x < 0 THEN 0 - x ELSE x

\* the integers nearest to a / b (b > 0): one of them, or both when a / b
\* lies exactly half-way between two integers
NearestInts(a, b) ==
    LET q == a \div b
        r == a % b
    IN  IF 2 * r < b THEN {q}
        ELSE IF 2 * r > b THEN {q + 1}
        ELSE {q, q + 1}

\* round(x, 1) of the binary float nearest to a / (10 * b): the exact
\* quotient decides unless it is a tie; on a tie the float's own error
\* decides, so either neighbour may come out (up chooses which)
round1(a, b, up) ==
    LET c == NearestInts(a, b)
    IN  IF up THEN CHOOSE x \in c : \A y \in c : y <= x
        ELSE CHOOSE x \in c : \A y \in c : x <= y

\* (float(temp_in_fahrenheit) - 32) * 5 / 9 rounded to one decimal, in
\* tenths: 50 * (f - 32) / 9 is never a tie for an integer f
convert_f_to_c(temp_in_fahrenheit) ==
    round1(50 * (temp_in_fahrenheit - 32), 9, FALSE)

RECURSIVE sum(_)
sum(s) == IF s = <<>> THEN 0 ELSE s[1] + sum(Tail(s))

\* sum(float_data) / len(float_data): ZeroDivisionError on an empty list
calculate_mean(weather_data) ==
    IF Len(weather_data) = 0 THEN Raise("ZeroDivisionError")
    ELSE Ok([num |-> sum(weather_data), den |-> Len(weather_data)])

----------------------------------------------------------------------------
(* find_min and find_max. *)

\* min(float_data) and max(float_data) of a non-empty list
min(s) == CHOOSE x \in {s[i] : i \in 1..Len(s)} : \A j \in 1..Len(s) : x <= s[j]
max(s) == CHOOSE x \in {s[i] : i \in 1..Len(s)} : \A j \in 1..Len(s) : x >= s[j]

\* float_data[::-1]
Reversed(s) == [i \in 1..Len(s) |-> s[Len(s) + 1 - i]]

\* list.index(x): the 0-based position of the first element equal to x
index(s, x) == (CHOOSE i \in 1..Len(s) : s[i] = x /\ \A j \in 1..(i - 1) : s[j] # x) - 1

\* a slip: the position of the first element equal to value
last_index_first(float_data, value) == index(float_data, value)

\* the 0-based position len - 1 - reversed.index(value)
last_index(float_data, value) ==
    Len(float_data) - 1 - index(Reversed(float_data), value)

\* a slip: the first position holding the minimum
find_min_first(weather_data) ==
    IF Len(weather_data) = 0 THEN Ok(<<>>)
    ELSE LET min_value == min(weather_data)
         IN  Ok(<<min_value, index(weather_data, min_value)>>)

\* find_min: () for an empty list, else (min_value, last_index)
find_min(weather_data) ==
    IF Len(weather_data) = 0 THEN Ok(<<>>)
    ELSE LET min_value == min(weather_data)
         IN  Ok(<<min_value, last_index(weather_data, min_value)>>)

\* a slip: the first position holding the maximum
find_max_first(weather_data) ==
    IF Len(weather_data) = 0 THEN Ok(<<>>)
    ELSE LET max_value == max(weather_data)
         IN  Ok(<<max_value, index(weather_data, max_value)>>)

\* a slip: no guard, so max() of an empty list raises ValueError
find_max_unguarded(weather_data) ==
    IF Len(weather_data) = 0 THEN Raise("ValueError")
    ELSE LET max_value == max(weather_data)
         IN  Ok(<<max_value, last_index(weather_data, max_value)>>)

\* find_max: () for an empty list, else (max_value, last_index)
find_max(weather_data) ==
    IF Len(weather_data) = 0 THEN Ok(<<>>)
    ELSE LET max_value == max(weather_data)
         IN  Ok(<<max_value, last_index(weather_data, max_value)>>)

----------------------------------------------------------------------------
(* generate_summary.  A record is <<date, min, max>>: day[0], day[1] and    *)
(* day[2] of the source are day[1], day[2] and day[3] here.                 *)

\* [float(day[1]) for day in weather_data] and [float(day[2]) ...]
min_temps(weather_data) == [i \in 1..Len(weather_data) |-> weather_data[i][2]]
max_temps(weather_data) == [i \in 1..Len(weather_data) |-> weather_data[i][3]]

\* [convert_f_to_c(temp) for temp in temps]
celsius_list(temps) == [i \in 1..Len(temps) |-> convert_f_to_c(temps[i])]

\* a slip: the Fahrenheit mean converted, not the mean of the conversions
average_c_of_mean_f(temps, up) ==
    IF Len(temps) = 0 THEN Raise("ZeroDivisionError")
    ELSE Ok(round1(50 * (sum(temps) - 32 * Len(temps)), 9 * Len(temps), up))

\* round(calculate_mean([convert_f_to_c(temp) for temp in temps]), 1)
average_c(temps, up) ==
    LET mean == calculate_mean(celsius_list(temps))
    IN  IF mean.ok THEN Ok(round1(mean.val.num, mean.val.den, up)) ELSE mean

\* lines 129-157: the body of generate_summary after the guard; what it
\* returns or raises, and the helpers it invoked on the way
summary_body(weather_data, upLow, upHigh) ==
    LET mins == min_temps(weather_data)
        maxs == max_temps(weather_data)
        rmin == find_min(mins)
        rmax == find_max(maxs)
    IN  \* lines 134-135: unpacking () into two names raises ValueError
        IF ~rmin.ok THEN [res |-> rmin, calls |-> {"find_min"}]
        ELSE IF rmin.val = <<>>
        THEN [res |-> Raise("ValueError"), calls |-> {"find_min"}]
        ELSE IF ~rmax.ok THEN [res |-> rmax, calls |-> {"find_min", "find_max"}]
        ELSE IF rmax.val = <<>>
        THEN [res |-> Raise("ValueError"), calls |-> {"find_min", "find_max"}]
        ELSE
        LET fmin == rmin.val
            fmax == rmax.val
            overall_min_c == convert_f_to_c(fmin[1])
            overall_max_c == convert_f_to_c(fmax[1])
            min_date == convert_date(weather_data[fmin[2] + 1][1])
            max_date == convert_date(weather_data[fmax[2] + 1][1])
            avg_low == average_c(mins, upLow)
            avg_high == average_c(maxs, upHigh)
            early == {"find_min", "find_max", "convert_f_to_c", "convert_date"}
        IN  IF ~min_date.ok THEN [res |-> min_date, calls |-> early]
            ELSE IF ~max_date.ok THEN [res |-> max_date, calls |-> early]
            ELSE IF ~avg_low.ok
            THEN [res |-> avg_low, calls |-> early \cup {"calculate_mean"}]
            ELSE IF ~avg_high.ok
            THEN [res |-> avg_high, calls |-> early \cup {"calculate_mean"}]
            ELSE [res |-> Ok(<<
                    <<Len(weather_data), " Day Overview">>,
                    <<"  The lowest temperature will be ",
                      format_temperature(overall_min_c),
                      ", and will occur on ", min_date.val, ".">>,
                    <<"  The highest temperature will be ",
                      format_temperature(overall_max_c),
                      ", and will occur on ", max_date.val, ".">>,
                    <<"  The average low this week is ",
                      format_temperature(avg_low.val), ".">>,
                    <<"  The average high this week is ",
                      format_temperature(avg_high.val), ".">> >>),
                  calls |-> early \cup {"calculate_mean", "format_temperature"}]

\* a slip: no guard for an empty list
generate_summary_unguarded(weather_data, upLow, upHigh) ==
    summary_body(weather_data, upLow, upHigh)

\* generate_summary: "" for no records, else the five-line overview
generate_summary(weather_data, upLow, upHigh) ==
    IF Len(weather_data) = 0 THEN [res |-> Ok(<<>>), calls |-> {}]
    ELSE summary_body(weather_data, upLow, upHigh)

----------------------------------------------------------------------------
(* generate_daily_summary. *)

\* lines 174-185: what one iteration of the loop adds to `summary`
daily_block(day) ==
    LET date_str == convert_date(day[1])
        min_temp_c == convert_f_to_c(day[2])
        max_temp_c == convert_f_to_c(day[3])
    IN  IF ~date_str.ok THEN date_str
        ELSE Ok(<< <<"---- ", date_str.val, " ----">>,
                   <<"  Minimum Temperature: ", format_temperature(min_temp_c)>>,
                   <<"  Maximum Temperature: ", format_temperature(max_temp_c)>>,
                   <<>> >>)

RECURSIVE daily_loop_prepend(_)
\* a slip: each block put in front of the summary so far
daily_loop_prepend(weather_data) ==
    IF weather_data = <<>> THEN Ok(<<>>)
    ELSE LET block == daily_block(Head(weather_data))
         IN  IF ~block.ok THEN block
             ELSE LET rest == daily_loop_prepend(Tail(weather_data))
                  IN  IF rest.ok THEN Ok(rest.val \o block.val) ELSE rest

RECURSIVE daily_loop(_)
\* lines 171-187: summary = "" and the loop over weather_data, in order; the
\* first record whose date does not parse ends the call with its error
daily_loop(weather_data) ==
    IF weather_data = <<>> THEN Ok(<<>>)
    ELSE LET block == daily_block(Head(weather_data))
         IN  IF ~block.ok THEN block
             ELSE LET rest == daily_loop(Tail(weather_data))
                  IN  IF rest.ok THEN Ok(block.val \o rest.val) ELSE rest

\* generate_daily_summary: "" for no records, else one block per record
generate_daily_summary(weather_data) ==
    IF Len(weather_data) = 0 THEN [res |-> Ok(<<>>), calls |-> {}]
    ELSE [res |-> daily_loop(weather_data),
          calls |-> IF convert_date(weather_data[1][1]).ok
                    THEN {"convert_date", "convert_f_to_c", "format_temperature"}
                    ELSE {"convert_date"}]

----------------------------------------------------------------------------
(* The inputs the model draws from. *)

SeqsUpTo(S, n) == UNION {[1..k -> S] : k \in 0..n}

\* "2021-07-06", "2021-07-07", and "2021-02-30", which is no calendar date
Date0706 == <<"2", "0", "2", "1", "-", "0", "7", "-", "0", "6">>
Date0707 == <<"2", "0", "2", "1", "-", "0", "7", "-", "0", "7">>
BadDate == <<"2", "0", "2", "1", "-", "0", "2", "-", "3", "0">>

\* lists of numbers for find_min, find_max and calculate_mean
Values == 1..5
ValueSeqs == SeqsUpTo(Values, MaxLen)

\* records for the report builders: dates, lows and highs in Fahrenheit
Dates == {Date0706, Date0707, BadDate}
LowHigh == {<<20, 90>>, <<33, 35>>, <<35, 90>>}
Records == {<<d, t[1], t[2]>> : d \in Dates, t \in LowHigh}
RecordSeqs == SeqsUpTo(Records, MaxDays)

\* rows of a CSV file, as csv.reader yields them
HeaderRow == << <<"d", "a", "t", "e">>, <<"m", "i", "n">>, <<"m", "a", "x">> >>
EmptyRow == <<>>
GoodRows ==
    { <<Date0706, <<"2", "0">>, <<"9", "0">> >>,
      <<Date0707, <<"2", "0">>, <<"9", "0">> >>,
      <<Date0706, <<"-", "4">>, <<" ", "+", "1", "_", "0", "0">> >> }
BadDateRow == <<BadDate, <<"2", "0">>, <<"9", "0">> >>
TwoFieldRow == <<Date0707, <<"2", "0">> >>
FourFieldRow == <<Date0707, <<"2", "0">>, <<"9", "0">>, <<"x">> >>
NotANumberRow == <<Date0707, <<"3", "x">>, <<"9", "0">> >>
Rows ==
    GoodRows \cup {EmptyRow, BadDateRow, TwoFieldRow, FourFieldRow, NotANumberRow}

\* a file: nothing at all, or a first row (a header, or a data row standing
\* where the header should be) followed by up to MaxRows rows
Files ==
    {<<>>} \cup
    {<<h>> \o rs : h \in {HeaderRow, <<Date0707, <<"3", "3">>, <<"9", "0">> >>},
                   rs \in SeqsUpTo(Rows, MaxRows)}

----------------------------------------------------------------------------
(* Calls of the pure functions: one call per behaviour, its input drawn    *)
(* from the sets above.                                                    *)

Idle == op = "idle"

Call(name, a, r, c) ==
    /\ op' = name
    /\ arg' = a
    /\ result' = r
    /\ calls' = c

FindMin ==
    /\ Idle /\ pc = "off"
    /\ \E v \in ValueSeqs : Call("find_min", v, find_min(v), {})
    /\ UNCHANGED loadVars

FindMax ==
    /\ Idle /\ pc = "off"
    /\ \E v \in ValueSeqs : Call("find_max", v, find_max(v), {})
    /\ UNCHANGED loadVars

CalculateMean ==
    /\ Idle /\ pc = "off"
    /\ \E v \in ValueSeqs : Call("calculate_mean", v, calculate_mean(v), {})
    /\ UNCHANGED loadVars

ConvertFToC ==
    /\ Idle /\ pc = "off"
    /\ \E f \in {20, 32, 33, 35, 90, 212} :
           Call("convert_f_to_c", f, Ok(convert_f_to_c(f)), {})
    /\ UNCHANGED loadVars

ConvertDate ==
    /\ Idle /\ pc = "off"
    /\ \E d \in {Date0706, Date0707, BadDate} :
           Call("convert_date", d, convert_date(d), {})
    /\ UNCHANGED loadVars

\* generate_summary(wd); the two booleans are the outcomes of the float
\* rounding of the two averages where the exact mean is a tie
GenerateSummaryOn(wd) ==
    \E upLow, upHigh \in BOOLEAN :
        LET r == generate_summary(wd, upLow, upHigh)
        IN  Call("generate_summary", wd, r.res, r.calls)

GenerateDailySummaryOn(wd) ==
    LET r == generate_daily_summary(wd)
    IN  Call("generate_daily_summary", wd, r.res, r.calls)

GenerateSummary ==
    /\ Idle /\ pc = "off"
    /\ \E wd \in RecordSeqs : GenerateSummaryOn(wd)
    /\ UNCHANGED loadVars

GenerateDailySummary ==
    /\ Idle /\ pc = "off"
    /\ \E wd \in RecordSeqs : GenerateDailySummaryOn(wd)
    /\ UNCHANGED loadVars

----------------------------------------------------------------------------
(* load_data_from_csv, statement by statement. *)

\* line 71: [row[0], int(row[1]), int(row[2])], evaluated left to right;
\* a missing field raises IndexError, a field int() rejects ValueError
processed_row(row) ==
    IF Len(row) < 2 THEN Raise("IndexError")
    ELSE LET lo == int(row[2])
         IN  IF ~lo.ok THEN lo
             ELSE IF Len(row) < 3 THEN Raise("IndexError")
             ELSE LET hi == int(row[3])
                  IN  IF ~hi.ok THEN hi
                      ELSE Ok(<<row[1], lo.val, hi.val>>)

\* a slip: data.insert(0, processed_row)
append_front(list, x) == <<x>> \o list

\* line 72: data.append(processed_row)
append(list, x) == Append(list, x)

\* lines 64-66: data = [], the stream is opened, the reader is created
Open ==
    /\ pc = "start"
    /\ data' = <<>>
    /\ fileOpen' = TRUE
    /\ pos' = 1
    /\ pc' = "header"
    /\ UNCHANGED <<file, ret, apiVars>>

\* line 67: next(reader) takes the first row, or raises StopIteration when
\* the file has none
ReadHeader ==
    /\ pc = "header"
    /\ IF pos > Len(file)
       THEN /\ pc' = "unwind"
            /\ ret' = Raise("StopIteration")
            /\ pos' = pos
       ELSE /\ pc' = "loop"
            /\ ret' = ret
            /\ pos' = pos + 1
    /\ UNCHANGED <<file, fileOpen, data, apiVars>>

\* lines 68-72: one iteration of the loop over the remaining rows
ReadRow ==
    /\ pc = "loop"
    /\ pos <= Len(file)
    /\ LET row == file[pos]
           p == processed_row(row)
       IN  IF Len(row) = 0
           THEN /\ data' = data
                /\ pc' = "loop"
                /\ ret' = ret
           ELSE IF p.ok
           THEN /\ data' = append(data, p.val)
                /\ pc' = "loop"
                /\ ret' = ret
           ELSE /\ data' = data
                /\ pc' = "unwind"
                /\ ret' = p
    /\ pos' = pos + 1
    /\ UNCHANGED <<file, fileOpen, apiVars>>

\* line 68: the reader is exhausted and the loop ends
LoopEnd ==
    /\ pc = "loop"
    /\ pos > Len(file)
    /\ pc' = "exit"
    /\ UNCHANGED <<file, fileOpen, pos, data, ret, apiVars>>

\* a slip: the stream closed after the loop only, not when an exception
\* leaves the block
WithExitLeaks ==
    /\ pc \in {"exit", "unwind"}
    /\ fileOpen' = (pc = "unwind")
    /\ pc' = IF pc = "exit" THEN "return" ELSE "raised"
    /\ UNCHANGED <<file, pos, data, ret, apiVars>>

\* line 65: the with block is left, after the loop or by an exception
\* passing through it; the exception then reaches the caller
WithExit ==
    /\ pc \in {"exit", "unwind"}
    /\ fileOpen' = FALSE
    /\ pc' = IF pc = "exit" THEN "return" ELSE "raised"
    /\ UNCHANGED <<file, pos, data, ret, apiVars>>

\* line 73: return data
Return ==
    /\ pc = "return"
    /\ ret' = Ok(data)
    /\ pc' = "returned"
    /\ UNCHANGED <<file, fileOpen, pos, data, apiVars>>

\* the caller hands the records load_data_from_csv returned to the reports
SummariseLoaded ==
    /\ Idle /\ pc = "returned"
    /\ GenerateSummaryOn(ret.val)
    /\ UNCHANGED loadVars

DailySummariseLoaded ==
    /\ Idle /\ pc = "returned"
    /\ GenerateDailySummaryOn(ret.val)
    /\ UNCHANGED loadVars

----------------------------------------------------------------------------
(* Specifications. *)

ApiIdle ==
    /\ op = "idle"
    /\ arg = <<>>
    /\ result = NoCall
    /\ calls = {}

\* the pure functions, called directly
Init ==
    /\ ApiIdle
    /\ file = <<>>
    /\ pc = "off"
    /\ fileOpen = FALSE
    /\ pos = 0
    /\ data = <<>>
    /\ ret = NoCall

Next ==
    \/ FindMin
    \/ FindMax
    \/ CalculateMean
    \/ ConvertFToC
    \/ ConvertDate
    \/ GenerateSummary
    \/ GenerateDailySummary

Spec == Init /\ [][Next]_vars

\* a call of load_data_from_csv on a file, then the reports on its records
LoadInit ==
    /\ ApiIdle
    /\ file \in Files
    /\ pc = "start"
    /\ fileOpen = FALSE
    /\ pos = 0
    /\ data = <<>>
    /\ ret = NoCall

LoadStep ==
    \/ Open
    \/ ReadHeader
    \/ ReadRow
    \/ LoopEnd
    \/ WithExit
    \/ Return

LoadNext ==
    \/ LoadStep
    \/ SummariseLoaded
    \/ DailySummariseLoaded

LoadSpec == LoadInit /\ [][LoadNext]_vars

\* the call is synchronous and single-threaded: a statement that can run, runs
FairLoadSpec == LoadSpec /\ WF_vars(LoadStep)

----------------------------------------------------------------------------
(* Properties of find_min and find_max (checked under Spec). *)

\* C1: for a non-empty list, find_min returns (m, i) with 0 <= i < len,
\* values[i] = m, no element smaller than m, and no position after i
\* holding m
FindMinLastOccurrence ==
    (op = "find_min" /\ Len(arg) > 0) =>
        /\ result.ok
        /\ Len(result.val) = 2
        /\ LET m == result.val[1]
               i == result.val[2]
           IN  /\ 0 <= i /\ i < Len(arg)
               /\ arg[i + 1] = m
               /\ \A j \in 1..Len(arg) : arg[j] >= m
               /\ \A j \in (i + 2)..Len(arg) : arg[j] # m

\* find_min([3,1,4,1,5]) has returned (1, 3)
FindMinTieWitness ==
    /\ op = "find_min"
    /\ arg = <<3, 1, 4, 1, 5>>
    /\ result.ok /\ result.val = <<1, 3>>

\* C2: for a non-empty list, find_max returns (m, i) with 0 <= i < len,
\* values[i] = m, no element larger than m, and no position after i
\* holding m
FindMaxLastOccurrence ==
    (op = "find_max" /\ Len(arg) > 0) =>
        /\ result.ok
        /\ Len(result.val) = 2
        /\ LET m == result.val[1]
               i == result.val[2]
           IN  /\ 0 <= i /\ i < Len(arg)
               /\ arg[i + 1] = m
               /\ \A j \in 1..Len(arg) : arg[j] <= m
               /\ \A j \in (i + 2)..Len(arg) : arg[j] # m

\* find_max of a list whose maximum occurs twice has returned the later
\* position
FindMaxTieWitness ==
    /\ op = "find_max"
    /\ arg = <<5, 1, 5, 2>>
    /\ result.ok /\ result.val = <<5, 2>>

\* C8: find_min and find_max of an empty list return the empty tuple: no
\* error, no number
EmptyExtremumIsEmptyTuple ==
    (op \in {"find_min", "find_max"} /\ Len(arg) = 0) =>
        (result.ok /\ result.val = <<>>)

\* find_max([]) has returned ()
FindMaxEmptyWitness ==
    /\ op = "find_max"
    /\ Len(arg) = 0
    /\ result.ok /\ result.val = <<>>

----------------------------------------------------------------------------
(* Properties of the report builders (checked under Spec). *)

\* C7: generate_summary and generate_daily_summary of no records return ""
\* and invoke no helper; calculate_mean of an empty list raises
EmptyInputAsymmetry ==
    /\ (op \in {"generate_summary", "generate_daily_summary"} /\ Len(arg) = 0) =>
           (result.ok /\ result.val = <<>> /\ calls = {})
    /\ (op = "calculate_mean" /\ Len(arg) = 0) => ~result.ok

\* generate_summary([]) has returned ""
EmptySummaryWitness ==
    /\ op = "generate_summary"
    /\ Len(arg) = 0
    /\ result.ok /\ result.val = <<>>

DatesParse(wd) == \A k \in 1..Len(wd) : convert_date(wd[k][1]).ok

\* C9: for N records whose dates parse, generate_daily_summary returns
\* exactly N blocks, the k-th built from the k-th record: the separator
\* with its formatted date, its low in Celsius, its high in Celsius, a
\* blank line
DailyBlocksInOrder ==
    (op = "generate_daily_summary" /\ DatesParse(arg)) =>
        /\ result.ok
        /\ Len(result.val) = 4 * Len(arg)
        /\ \A k \in 1..Len(arg) :
               /\ result.val[4 * k - 3] =
                      <<"---- ", convert_date(arg[k][1]).val, " ----">>
               /\ result.val[4 * k - 2] =
                      <<"  Minimum Temperature: ",
                        <<convert_f_to_c(arg[k][2]), DEGREE_SYMBOL>> >>
               /\ result.val[4 * k - 1] =
                      <<"  Maximum Temperature: ",
                        <<convert_f_to_c(arg[k][3]), DEGREE_SYMBOL>> >>
               /\ result.val[4 * k] = <<>>

\* a daily summary of two records that differ has been built
DailyTwoBlocksWitness ==
    /\ op = "generate_daily_summary"
    /\ Len(arg) = 2
    /\ arg[1][1] # arg[2][1]
    /\ arg[1][2] # arg[2][2]
    /\ result.ok /\ Len(result.val) = 8

\* the sum of the one-decimal Celsius values of a list of Fahrenheit values
CelsiusSum(temps) == sum([i \in 1..Len(temps) |-> convert_f_to_c(temps[i])])

\* x is the quotient total / n rounded to the nearest integer
IsNearest(x, total, n) == 2 * Abs(n * x - total) <= n

\* C10: for a non-empty list of records the reported average low is the
\* mean of the individually converted and rounded lows, rounded to one
\* decimal, and the average high likewise from the highs
AverageOfConvertedValues ==
    (op = "generate_summary" /\ Len(arg) > 0) =>
        /\ DatesParse(arg) => result.ok
        /\ result.ok =>
               /\ Len(result.val) = 5
               /\ IsNearest(result.val[4][2][1],
                            CelsiusSum(min_temps(arg)), Len(arg))
               /\ IsNearest(result.val[5][2][1],
                            CelsiusSum(max_temps(arg)), Len(arg))

\* an overview whose average low is not what converting the mean of the
\* Fahrenheit lows would give
AverageDiffersFromConvertedMeanWitness ==
    /\ op = "generate_summary"
    /\ Len(arg) > 0
    /\ result.ok
    /\ result.val[4][2][1] \notin
           NearestInts(50 * (sum(min_temps(arg)) - 32 * Len(arg)), 9 * Len(arg))

----------------------------------------------------------------------------
(* Properties of load_data_from_csv (checked under LoadSpec). *)

NonEmpty(row) == Len(row) > 0

\* the rows after the first that have fields, in source order
DataRows == IF file = <<>> THEN <<>> ELSE SelectSeq(Tail(file), NonEmpty)

\* a row of exactly three fields whose second and third are integers
ThreeFieldRow(row) == Len(row) = 3 /\ int(row[2]).ok /\ int(row[3]).ok

Finished == pc \in {"returned", "raised"}

\* C4: a file with a non-empty data row that has not exactly three fields,
\* or a non-integer second or third field, makes the load fail; only rows
\* without fields are skipped
MalformedRowFailsLoad ==
    Finished =>
        /\ (\E i \in 1..Len(DataRows) : ~ThreeFieldRow(DataRows[i])) =>
               (pc = "raised" /\ ~ret.ok)
        /\ pc = "returned" => Len(ret.val) = Len(DataRows)

\* C5: a file of a first row followed by three-field data rows and empty
\* rows loads as exactly one record per data row, in source order; the
\* first row is no record
LoadKeepsRowsInOrder ==
    (file # <<>> /\ \A i \in 1..Len(DataRows) : ThreeFieldRow(DataRows[i])) =>
        /\ pc # "unwind" /\ pc # "raised"
        /\ pc = "returned" =>
               /\ ret.ok
               /\ Len(ret.val) = Len(DataRows)
               /\ \A k \in 1..Len(DataRows) :
                      ret.val[k] = <<DataRows[k][1], int(DataRows[k][2]).val,
                                     int(DataRows[k][3]).val>>

\* a file with an empty row between two different data rows has loaded
LoadInterleavedWitness ==
    /\ pc = "returned"
    /\ Len(file) = 4
    /\ Len(file[2]) = 3 /\ Len(file[3]) = 0 /\ Len(file[4]) = 3
    /\ file[2] # file[4]
    /\ Len(ret.val) = 2

\* C6: once opened the stream is eventually released, and no finished load,
\* returned or failed, leaves it open
StreamReleased ==
    /\ fileOpen ~> ~fileOpen
    /\ [](Finished => ~fileOpen)

\* a load has failed on a data row after reading an earlier one, and the
\* stream is closed
FailedPartwayWitness ==
    /\ pc = "raised"
    /\ Len(data) > 0
    /\ ~ret.ok
    /\ ~fileOpen

\* the 1-based position of the last element of a list equal to its minimum
\* (maximum)
LastMinPos(s) ==
    CHOOSE i \in 1..Len(s) :
        /\ \A j \in 1..Len(s) : s[i] <= s[j]
        /\ \A j \in (i + 1)..Len(s) : s[j] # s[i]
LastMaxPos(s) ==
    CHOOSE i \in 1..Len(s) :
        /\ \A j \in 1..Len(s) : s[i] >= s[j]
        /\ \A j \in (i + 1)..Len(s) : s[j] # s[i]

\* the integer a data row holds in field n
FieldInt(n) == [k \in 1..Len(DataRows) |-> int(DataRows[k][n]).val]

\* C3: when generate_summary is given the records a load returned, the
\* date on the lowest line is that of the last data row of the file whose
\* low is the overall minimum, and the date on the highest line that of
\* the last data row whose high is the overall maximum
SummaryDatesOfLastExtremes ==
    (pc = "returned" /\ op = "generate_summary" /\ Len(arg) > 0 /\ result.ok) =>
        /\ arg = ret.val
        /\ Len(arg) = Len(DataRows)
        /\ LET lowest == convert_date(DataRows[LastMinPos(FieldInt(2))][1])
               highest == convert_date(DataRows[LastMaxPos(FieldInt(3))][1])
           IN  /\ lowest.ok /\ result.val[2][4] = lowest.val
               /\ highest.ok /\ result.val[3][4] = highest.val

\* an overview of loaded records in which two rows with different dates tie
\* for the lowest temperature
SummaryTieWitness ==
    /\ pc = "returned" /\ op = "generate_summary" /\ result.ok
    /\ Len(arg) >= 2
    /\ \E i, j \in 1..Len(arg) :
           /\ i < j
           /\ arg[i][2] = arg[j][2]
           /\ arg[i][1] # arg[j][1]
           /\ \A k \in 1..Len(arg) : arg[k][2] >= arg[j][2]

=============================================================================
